---- MODULE Spec2Model ----
(***************************************************************************)
(* A model of pysal/cg/collection.py: the geometry classes with their      *)
(* bounding-box algorithms and the FeatureCollection built on top of them  *)
(* (construction from a GeoJSON file, the idVariable property, the id      *)
(* based queries and saveAsGeoJson).                                       *)
(*                                                                         *)
(* A call that can raise returns a record [ok, exc, val]: ok says whether  *)
(* it returned, exc names the exception it raised otherwise.               *)
(***************************************************************************)
EXTENDS Integers, Sequences, FiniteSets, TLC

\* ------------------------------------------------------------ bounds

\* Longest feature list of an input file.
MaxFeatures == 2
\* Longest argument list of a query.
MaxArgs == 2
\* Most points of a ring, a line string or a multi point.
MaxPts == 2
\* Most members (rings, line strings, polygons) of a nested geometry.
MaxParts == 2

\* ------------------------------------------------------------ helpers

SeqsUpTo(S, n) == UNION {[1..k -> S] : k \in 0..n}

Range(s) == {s[i] : i \in DOMAIN s}

SetMin(S) == CHOOSE m \in S : \A x \in S : m <= x

SetMax(S) == CHOOSE m \in S : \A x \in S : x <= m

\* Python's min(a, b) and max(a, b) on two numbers.
Min2(a, b) == IF a <= b THEN a ELSE b

Max2(a, b) == IF a >= b THEN a ELSE b

\* The record of a call: op names the method, key, args and keys are its
\* arguments (those it has), prior is idVariable as the call found it.
Call(op, key, args, keys, prior, ok, exc, warned, val) ==
    [op |-> op, key |-> key, args |-> args, keys |-> keys, prior |-> prior,
     ok |-> ok, exc |-> exc, warned |-> warned, val |-> val]

Ok(v) == [ok |-> TRUE, exc |-> "", val |-> v]

\* F(x), with x evaluated once: a local variable holding a call's result.
Bind(F(_), x) == CHOOSE out \in {F(v) : v \in {x}} : TRUE

Raise(e, v) == [ok |-> FALSE, exc |-> e, val |-> v]

\* ------------------------------------------------------------ values

\* Python's None, and the state of an attribute that was never assigned
\* (reading it raises AttributeError).
None == "<None>"

Unset == "<unset>"

\* A property value as json.load yields it: an integer a, the string
\* whose text is the decimal numeral of a, or the two-element list [a, b].
IntV(a) == [t |-> "int", a |-> a, b |-> 0]

StrV(a) == [t |-> "str", a |-> a, b |-> 0]

ListV(a, b) == [t |-> "list", a |-> a, b |-> b]

\* ------------------------------------------------------------ json text

DigitChar == <<"0", "1", "2", "3", "4", "5", "6", "7", "8", "9">>

DigitVal(c) == (CHOOSE d \in 1..10 : DigitChar[d] = c) - 1

RECURSIVE Digits(_)
Digits(n) ==
    IF n < 10 THEN <<DigitChar[n + 1]>>
    ELSE Digits(n \div 10) \o <<DigitChar[(n % 10) + 1]>>

\* The JSON text of an integer, one character per element.
IntText(n) == IF n < 0 THEN <<"-">> \o Digits(0 - n) ELSE Digits(n)

RECURSIVE ParseDigits(_)
ParseDigits(cs) ==
    IF Len(cs) = 1 THEN DigitVal(cs[1])
    ELSE 10 * ParseDigits(SubSeq(cs, 1, Len(cs) - 1)) + DigitVal(cs[Len(cs)])

ParseInt(cs) ==
    IF cs[1] = "-" THEN 0 - ParseDigits(Tail(cs)) ELSE ParseDigits(cs)

\* json.dump of a string: its text between quotes.
JsonDumpStr(s) == <<"\"", s, "\"">>

JsonLoadStr(txt) == txt[2]

\* json.dump of a property value.
JsonDumpValue(v) ==
    CASE v.t = "int" -> IntText(v.a)
      [] v.t = "str" -> <<"\"">> \o IntText(v.a) \o <<"\"">>
      [] v.t = "list" -> <<"[">> \o IntText(v.a) \o <<",">> \o IntText(v.b) \o <<"]">>

\* json.load of a property value: the first character decides the type.
JsonLoadValue(txt) ==
    CASE txt[1] = "\"" -> StrV(ParseInt(SubSeq(txt, 2, Len(txt) - 1)))
      [] txt[1] = "[" ->
           LET c == CHOOSE i \in 1..Len(txt) : txt[i] = ","
           IN  ListV(ParseInt(SubSeq(txt, 2, c - 1)),
                     ParseInt(SubSeq(txt, c + 1, Len(txt) - 1)))
      [] OTHER -> IntV(ParseInt(txt))

\* The nesting depth of the coordinates of a geometry type: a Point is a
\* list of numbers, a LineString a list of points, and so on.
CoordDepth(ft) ==
    CASE ft \in {"LineString", "MultiPoint"} -> 2
      [] ft \in {"Polygon", "MultiLineString"} -> 3
      [] ft = "MultiPolygon" -> 4
      [] OTHER -> 1

RECURSIVE JsonDumpCoords(_, _)
JsonDumpCoords(d, c) ==
    IF d = 0 THEN IntText(c)
    ELSE [i \in 1..Len(c) |-> JsonDumpCoords(d - 1, c[i])]

RECURSIVE JsonLoadCoords(_, _)
JsonLoadCoords(d, txt) ==
    IF d = 0 THEN ParseInt(txt)
    ELSE [i \in 1..Len(txt) |-> JsonLoadCoords(d - 1, txt[i])]

\* json.dump of one feature record {type, geometry: {type, coordinates}, properties}.
JsonDumpFeature(f) ==
    [type |-> JsonDumpStr(f.type),
     geometry |->
        [type |-> JsonDumpStr(f.geometry.type),
         coordinates |->
            JsonDumpCoords(CoordDepth(f.geometry.type), f.geometry.coordinates)],
     properties |->
        [k \in DOMAIN f.properties |-> JsonDumpValue(f.properties[k])]]

JsonLoadFeature(t) ==
    [type |-> JsonLoadStr(t.type),
     geometry |->
        [type |-> JsonLoadStr(t.geometry.type),
         coordinates |->
            JsonLoadCoords(CoordDepth(JsonLoadStr(t.geometry.type)),
                           t.geometry.coordinates)],
     properties |->
        [k \in DOMAIN t.properties |-> JsonLoadValue(t.properties[k])]]

\* json.dump(d, out) and json.load(source) of a whole document.
JsonDump(d) ==
    [type |-> JsonDumpStr(d.type),
     features |-> [i \in 1..Len(d.features) |-> JsonDumpFeature(d.features[i])]]

JsonLoad(t) ==
    [type |-> JsonLoadStr(t.type),
     features |-> [i \in 1..Len(t.features) |-> JsonLoadFeature(t.features[i])]]

\* ------------------------------------------------------------ geometry

\* np.Infinity, above every coordinate of the model.
Infinity == 1000

\* ring_bbox(ring): min() and max() of an empty list raise ValueError.
ring_bbox(ring) ==
    IF Len(ring) = 0 THEN Raise("ValueError", <<>>)
    ELSE LET xs == {ring[i][1] : i \in 1..Len(ring)}
             ys == {ring[i][2] : i \in 1..Len(ring)}
         IN  Ok(<<SetMin(xs), SetMin(ys), SetMax(xs), SetMax(ys)>>)

\* A faulty Widen, which C7 must reject: min where the loop takes the max
\* of the right edge.
Widen_MinOfRightEdge(acc, bb) ==
    <<Min2(bb[1], acc[1]), Min2(bb[2], acc[2]),
      Min2(bb[3], acc[3]), Max2(bb[4], acc[4])>>

\* One turn of the accumulating loops: the box acc widened by the box bb.
Widen(acc, bb) ==
    <<Min2(bb[1], acc[1]), Min2(bb[2], acc[2]),
      Max2(bb[3], acc[3]), Max2(bb[4], acc[4])>>

\* The loop of Polygon.build_bbox over the rings from k on, acc being
\* [x0, y0, x1, y1] so far.
RECURSIVE RingLoop(_, _, _)
RingLoop(rings, k, acc) ==
    IF k > Len(rings) THEN Ok(acc)
    ELSE Bind(LAMBDA rb :
                IF ~rb.ok THEN rb
                ELSE Bind(LAMBDA a : RingLoop(rings, k + 1, a), Widen(acc, rb.val)),
              ring_bbox(rings[k]))

Polygon_build_bbox(coordinates) ==
    RingLoop(coordinates, 1, <<Infinity, Infinity, 0 - Infinity, 0 - Infinity>>)

\* The loop of MultiPolygon.build_bbox over the polygons from p on.
RECURSIVE PolygonLoop(_, _, _)
PolygonLoop(polygons, p, acc) ==
    IF p > Len(polygons) THEN Ok(acc)
    ELSE Bind(LAMBDA pb :
                IF ~pb.ok THEN pb ELSE PolygonLoop(polygons, p + 1, pb.val),
              RingLoop(polygons[p], 1, acc))

MultiPolygon_build_bbox(coordinates) ==
    PolygonLoop(coordinates, 1, <<Infinity, Infinity, 0 - Infinity, 0 - Infinity>>)

LineString_build_bbox(coordinates) == ring_bbox(coordinates)

\* The loop of MultiLineString.build_bbox: each member is built as a
\* LineString and its bbox read.
RECURSIVE LineLoop(_, _, _)
LineLoop(lines, k, acc) ==
    IF k > Len(lines) THEN Ok(acc)
    ELSE Bind(LAMBDA lb :
                IF ~lb.ok THEN lb
                ELSE Bind(LAMBDA a : LineLoop(lines, k + 1, a), Widen(acc, lb.val)),
              LineString_build_bbox(lines[k]))

MultiLineString_build_bbox(coordinates) ==
    LineLoop(coordinates, 1, <<Infinity, Infinity, 0 - Infinity, 0 - Infinity>>)

Point_build_bbox(coordinates) == Ok(coordinates)

\* m.min(axis=0).tolist() + m.max(axis=0).tolist(); the reduction of an
\* empty array raises ValueError.
MultiPoint_build_bbox(coordinates) ==
    IF Len(coordinates) = 0 THEN Raise("ValueError", <<>>)
    ELSE LET xs == {coordinates[i][1] : i \in 1..Len(coordinates)}
             ys == {coordinates[i][2] : i \in 1..Len(coordinates)}
         IN  Ok(<<SetMin(xs), SetMin(ys)>> \o <<SetMax(xs), SetMax(ys)>>)

\* The per-ring boxes Polygon and MultiPolygon keep in self.bboxes.
RingBoxes(rings) == [i \in 1..Len(rings) |-> ring_bbox(rings[i]).val]

GeometryTypes ==
    {"Point", "Polygon", "LineString", "MultiPoint", "MultiPolygon",
     "MultiLineString"}

build_bbox(ft, coordinates) ==
    CASE ft = "Point" -> Point_build_bbox(coordinates)
      [] ft = "Polygon" -> Polygon_build_bbox(coordinates)
      [] ft = "LineString" -> LineString_build_bbox(coordinates)
      [] ft = "MultiPoint" -> MultiPoint_build_bbox(coordinates)
      [] ft = "MultiPolygon" -> MultiPolygon_build_bbox(coordinates)
      [] ft = "MultiLineString" -> MultiLineString_build_bbox(coordinates)

\* A faulty geometryDispatcher, which C9 must reject: a lookup with a
\* default (geometryDispatcher.get(ft, Point)) in place of the indexing.
geometryDispatcher_WithDefault(ft, fc) ==
    IF ft \notin GeometryTypes
    THEN Ok([type |-> "Point", coordinates |-> fc, bbox |-> fc, bboxes |-> <<>>])
    ELSE Bind(LAMBDA bb :
                IF ~bb.ok THEN bb
                ELSE Ok([type |-> ft, coordinates |-> fc, bbox |-> bb.val,
                         bboxes |-> <<>>]),
              build_bbox(ft, fc))

\* geometryDispatcher[ft](fc): the lookup raises KeyError for a tag that
\* is no key of the dictionary; Geometry.__init__ stores the coordinates
\* and the box build_bbox returns.
geometryDispatcher(ft, fc) ==
    IF ft \notin GeometryTypes THEN Raise("KeyError", <<>>)
    ELSE Bind(LAMBDA bb :
                IF ~bb.ok THEN bb
                ELSE Ok([type |-> ft, coordinates |-> fc, bbox |-> bb.val,
                         bboxes |->
                            CASE ft = "Polygon" -> RingBoxes(fc)
                              [] ft = "MultiPolygon" ->
                                   [p \in 1..Len(fc) |-> RingBoxes(fc[p])]
                              [] OTHER -> <<>>]),
              build_bbox(ft, fc))

\* ------------------------------------------------------------ FeatureCollection

VARIABLES
    pc,          \* "new" before the constructor ran, then "ready" or "failed"
    source,      \* the text of the file the constructor reads
    features,    \* self.features: id -> [geometry, properties]
    n_features,  \* self.n_features
    idVariable,  \* self.__idVariable (Unset while it was never assigned)
    saved,       \* the file saveAsGeoJson writes
    copy,        \* the collection constructed from the saved file
    result,      \* what the last call did: its arguments and its outcome
    geomIn,      \* a geometry type and a coordinate payload
    geomOut      \* the outcome of constructing that geometry

vars ==
    <<pc, source, features, n_features, idVariable, saved, copy, result,
      geomIn, geomOut>>

\* The object the methods are called on.
Self ==
    [features |-> features, n_features |-> n_features, idVariable |-> idVariable]

\* The loop of __init__ over data['features'] from record k on; acc holds
\* the features built so far, in file order.
RECURSIVE FeatureLoop(_, _, _)
FeatureLoop(recs, k, acc) ==
    IF k > Len(recs) THEN Ok(acc)
    ELSE Bind(LAMBDA g :
                IF ~g.ok THEN Raise(g.exc, <<>>)
                ELSE Bind(LAMBDA a : FeatureLoop(recs, k + 1, a),
                          Append(acc, [geometry |-> g.val,
                                       properties |-> recs[k].properties])),
              geometryDispatcher(recs[k].geometry.type,
                                 recs[k].geometry.coordinates))

\* getPropertiesAsLists(properties): one row per feature in id order; a
\* key missing from a feature's properties raises KeyError.
getPropertiesAsLists(self, properties) ==
    IF \E i \in 0..(self.n_features - 1) : \E j \in 1..Len(properties) :
          properties[j] \notin DOMAIN self.features[i].properties
    THEN Raise("KeyError", <<>>)
    ELSE Ok([r \in 1..self.n_features |->
               [j \in 1..Len(properties) |->
                  self.features[r - 1].properties[properties[j]]]])

\* The elements of a list of rows, row after row.
RECURSIVE Chain(_)
Chain(rows) == IF Len(rows) = 0 THEN <<>> ELSE Head(rows) \o Chain(Tail(rows))

\* np.array(rows), as [shape0, flat]: shape0 is shape[0], flat the elements
\* in flatten() order.  Rows of two-element lists make a numeric array one
\* dimension deeper; a string among numbers turns every number into its
\* decimal text; numbers alone stay numbers.
NpFlat(cells) ==
    CASE \A i \in 1..Len(cells) : cells[i].t = "list" ->
           Chain([i \in 1..Len(cells) |-> <<IntV(cells[i].a), IntV(cells[i].b)>>])
      [] \A i \in 1..Len(cells) : cells[i].t \in {"int", "str"} ->
           IF \E i \in 1..Len(cells) : cells[i].t = "str"
           THEN [i \in 1..Len(cells) |-> StrV(cells[i].a)]
           ELSE cells

NpArray(rows) ==
    [shape0 |-> Len(rows), flat |-> Bind(LAMBDA cells : NpFlat(cells), Chain(rows))]

getPropertiesAsArray(self, properties) ==
    Bind(LAMBDA a : IF ~a.ok THEN a ELSE Ok(NpArray(a.val)),
         getPropertiesAsLists(self, properties))

\* is_unique(values): np.unique(values).shape[0] == values.shape[0].
is_unique(values) == Cardinality(Range(values.flat)) = values.shape0

\* A faulty setter, which C10 must reject: it assigns the name before it
\* reads the column, so a KeyError leaves the new name behind.
idVariable_setter_AssignsFirst(self, property) ==
    IF property = None
    THEN [ok |-> TRUE, exc |-> "", warned |-> FALSE, idVariable |-> property]
    ELSE Bind(LAMBDA arr :
                IF ~arr.ok
                THEN [ok |-> FALSE, exc |-> arr.exc, warned |-> FALSE,
                      idVariable |-> property]
                ELSE IF is_unique(arr.val)
                THEN [ok |-> TRUE, exc |-> "", warned |-> FALSE,
                      idVariable |-> property]
                ELSE [ok |-> TRUE, exc |-> "", warned |-> TRUE,
                      idVariable |-> self.idVariable],
              getPropertiesAsArray(self, <<property>>))

\* The idVariable setter: [ok, exc, warned, idVariable after].
idVariable_setter(self, property) ==
    IF property = None
    THEN [ok |-> TRUE, exc |-> "", warned |-> FALSE, idVariable |-> property]
    ELSE Bind(LAMBDA arr :
                IF ~arr.ok
                THEN [ok |-> FALSE, exc |-> arr.exc, warned |-> FALSE,
                      idVariable |-> self.idVariable]
                ELSE IF is_unique(arr.val)
                THEN [ok |-> TRUE, exc |-> "", warned |-> FALSE,
                      idVariable |-> property]
                ELSE [ok |-> TRUE, exc |-> "", warned |-> TRUE,
                      idVariable |-> self.idVariable],
              getPropertiesAsArray(self, <<property>>))

\* The idVariable getter: reading an attribute never assigned raises.
idVariable_getter(self) ==
    IF self.idVariable = Unset THEN Raise("AttributeError", Unset)
    ELSE Ok(self.idVariable)

\* The end of __init__, from "self.features = features" on: built is the
\* list the loop made.
InitTail(built, idVar) ==
    Bind(LAMBDA fresh :
           Bind(LAMBDA set :
                  IF ~set.ok
                  THEN [ok |-> FALSE, exc |-> set.exc, warned |-> FALSE,
                        self |-> <<>>]
                  ELSE [ok |-> TRUE, exc |-> "", warned |-> set.warned,
                        self |-> [fresh EXCEPT !.idVariable = set.idVariable]],
                idVariable_setter(fresh, idVar)),
         [features |-> [i \in 0..(Len(built) - 1) |-> built[i + 1]],
          n_features |-> Len(built),
          idVariable |-> Unset])

\* FeatureCollection.__init__(file_path, idVariable):
\* [ok, exc, warned, self].  An exception leaves the caller without object.
FeatureCollection_init(text, idVar) ==
    Bind(LAMBDA data :
           Bind(LAMBDA built :
                  IF ~built.ok
                  THEN [ok |-> FALSE, exc |-> built.exc, warned |-> FALSE,
                        self |-> <<>>]
                  ELSE InitTail(built.val, idVar),
                FeatureLoop(data.features, 1, <<>>)),
         JsonLoad(text))

getIdVariableOrder(self) ==
    IF self.idVariable = Unset THEN Raise("AttributeError", <<>>)
    ELSE getPropertiesAsArray(self, <<self.idVariable>>)

\* list.index(v): the position, from 0, of the first element equal to v.
Index(lst, v) == SetMin({i \in 1..Len(lst) : lst[i] = v}) - 1

\* getFeatureIds(args): ValueError when a value is not in the list.
getFeatureIds(self, args) ==
    Bind(LAMBDA order :
           IF ~order.ok THEN Raise(order.exc, <<>>)
           ELSE Bind(LAMBDA idOrder :
                       IF \E k \in 1..Len(args) : args[k] \notin Range(idOrder)
                       THEN Raise("ValueError", <<>>)
                       ELSE Ok([k \in 1..Len(args) |-> Index(idOrder, args[k])]),
                     order.val.flat),
         getIdVariableOrder(self))

\* An optional argument list: omitted (args=None) or given.
NoArgs == [given |-> FALSE, vals |-> <<>>]

Given(vals) == [given |-> TRUE, vals |-> vals]

\* "if args:" is false for None and for the empty list.
Truthy(args) == args.given /\ Len(args.vals) > 0

\* The ids getFeatures and getGeometries walk: xrange(n_features) as a list.
SelectIds(self, args) ==
    IF Truthy(args) THEN getFeatureIds(self, args.vals)
    ELSE Ok([k \in 1..self.n_features |-> k - 1])

\* The generator (self.features[i] for i in ids), run to its end: the
\* elements it yields, KeyError at the first id that is no key.
Consume(self, ids) ==
    Bind(LAMBDA bad :
           IF bad = {} THEN Ok([k \in 1..Len(ids) |-> self.features[ids[k]]])
           ELSE Raise("KeyError",
                      [k \in 1..(SetMin(bad) - 1) |-> self.features[ids[k]]]),
         {k \in 1..Len(ids) : ids[k] \notin DOMAIN self.features})

getFeatures(self, args) ==
    Bind(LAMBDA ids : IF ~ids.ok THEN ids ELSE Consume(self, ids.val),
         SelectIds(self, args))

getGeometries(self, args) ==
    Bind(LAMBDA ids :
           IF ~ids.ok THEN ids
           ELSE Bind(LAMBDA fs :
                       [fs EXCEPT !.val =
                          [k \in 1..Len(fs.val) |-> fs.val[k].geometry]],
                     Consume(self, ids.val)),
         SelectIds(self, args))

\* A faulty saveAsGeoJson, which C6 must reject: the features leave in
\* the reverse of id order.
saveAsGeoJson_Reversed(self) ==
    [type |-> "FeatureCollection",
     features |->
        [k \in 1..self.n_features |->
           [type |-> "Feature",
            geometry |->
               [type |-> self.features[self.n_features - k].geometry.type,
                coordinates |->
                   self.features[self.n_features - k].geometry.coordinates],
            properties |-> self.features[self.n_features - k].properties]]]

\* The document saveAsGeoJson dumps: the features in the order the
\* dictionary yields its keys, which for the keys 0..n-1 is id order.
saveAsGeoJson(self) ==
    [type |-> "FeatureCollection",
     features |->
        [k \in 1..self.n_features |->
           [type |-> "Feature",
            geometry |->
               [type |-> self.features[k - 1].geometry.type,
                coordinates |-> self.features[k - 1].geometry.coordinates],
            properties |-> self.features[k - 1].properties]]]

\* ------------------------------------------------------------ inputs

Rec(ft, fc, props) ==
    [type |-> "Feature", geometry |-> [type |-> ft, coordinates |-> fc],
     properties |-> props]

\* The property keys of the input files: "id" holds numbers and strings,
\* "tag" holds two-element lists.
Keys == {"id", "tag"}

\* Feature records the input files of the query model are made of.  The
\* last two do not construct: an unknown type tag, a line string without
\* points.
Catalogue ==
    {Rec("Point", <<0, 1>>, [id |-> IntV(1), tag |-> ListV(1, 2)]),
     Rec("LineString", <<<<0, 1>>, <<2, 0>>>>, [id |-> IntV(2), tag |-> ListV(1, 2)]),
     Rec("Polygon", <<<<<<0, 0>>, <<2, 1>>, <<0, 0>>>>>>,
         [id |-> StrV(1), tag |-> ListV(2, 2)]),
     Rec("MultiPoint", <<<<1, 1>>>>, [id |-> StrV(2)]),
     Rec("Circle", <<0, 1>>, [id |-> IntV(2), tag |-> ListV(2, 1)]),
     Rec("LineString", <<>>, [id |-> IntV(1), tag |-> ListV(1, 1)])}

\* Feature records the input files of the save and load model are made
\* of: every geometry type, among them a polygon without rings and a
\* multi polygon with a polygon without rings.
IOCatalogue ==
    {Rec("Point", <<0 - 1, 10>>, [id |-> IntV(1)]),
     Rec("MultiPoint", <<<<1, 1>>, <<0, 2>>>>, [id |-> StrV(1)]),
     Rec("LineString", <<<<0, 1>>, <<2, 0>>>>, [id |-> IntV(12), tag |-> ListV(1, 2)]),
     Rec("MultiLineString", <<<<<<0, 1>>, <<2, 0>>>>, <<<<3, 3>>>>>>,
         [id |-> StrV(12)]),
     Rec("Polygon", <<<<<<0, 0>>, <<2, 1>>, <<0, 0>>>>, <<<<1, 1>>>>>>,
         [tag |-> ListV(0 - 2, 10)]),
     Rec("Polygon", <<>>, <<>>),
     Rec("MultiPolygon", <<<<<<<<0, 0>>, <<2, 1>>>>>>, <<>>>>, [id |-> IntV(0)])}

\* The points geometries are made of, and the payloads made of them.
Pts == {<<0, 1>>, <<2, 0>>}

Rings == SeqsUpTo(Pts, MaxPts)

ShortRings == SeqsUpTo(Pts, 1)

\* Values a caller asks getFeatureIds for.
ArgValues == {IntV(1), StrV(1)}

ArgLists == SeqsUpTo(ArgValues, MaxArgs)

OptArgs == {NoArgs} \cup {Given(a) : a \in ArgLists}

\* What a caller assigns to idVariable, or passes to the constructor.
IdArgs == {None} \cup Keys

KeyLists == {<<"id">>, <<"tag">>, <<"id", "tag">>}

Document(fs) == [type |-> "FeatureCollection", features |-> fs]

NoFile == [exists |-> FALSE, text |-> JsonDump(Document(<<>>))]

NoCopy == [made |-> FALSE, ok |-> FALSE, exc |-> "", self |-> <<>>]

NoGeom == [made |-> FALSE, ok |-> FALSE, exc |-> "", val |-> <<>>]

NoCall == Call("", None, NoArgs, <<>>, Unset, TRUE, "", FALSE, <<>>)

\* ------------------------------------------------------------ actions

InitWith(cat) ==
    /\ pc = "new"
    /\ source \in {JsonDump(Document(fs)) : fs \in SeqsUpTo(cat, MaxFeatures)}
    /\ features = <<>>
    /\ n_features = 0
    /\ idVariable = Unset
    /\ saved = NoFile
    /\ copy = NoCopy
    /\ result = NoCall
    /\ geomIn = [type |-> "Point", coordinates |-> <<0, 0>>]
    /\ geomOut = NoGeom

Init == InitWith(Catalogue)

\* fc = FeatureCollection(path, idVariable=idv)
Construct ==
    /\ pc = "new"
    /\ \E idv \in IdArgs :
          \E r \in {FeatureCollection_init(source, idv)} :
              /\ result' = Call("init", idv, NoArgs, <<>>, None, r.ok, r.exc,
                                r.warned, <<>>)
              /\ IF r.ok
                 THEN /\ pc' = "ready"
                      /\ features' = r.self.features
                      /\ n_features' = r.self.n_features
                      /\ idVariable' = r.self.idVariable
                 ELSE /\ pc' = "failed"
                      /\ UNCHANGED <<features, n_features, idVariable>>
    /\ UNCHANGED <<source, saved, copy, geomIn, geomOut>>

\* fc.idVariable = p
SetIdVariable ==
    /\ pc = "ready"
    /\ \E p \in IdArgs :
          \E r \in {idVariable_setter(Self, p)} :
              /\ idVariable' = r.idVariable
              /\ result' = Call("set", p, NoArgs, <<>>, idVariable, r.ok, r.exc,
                                r.warned, <<>>)
    /\ UNCHANGED <<pc, source, features, n_features, saved, copy, geomIn, geomOut>>

\* fc.idVariable
GetIdVariable ==
    /\ pc = "ready"
    /\ \E r \in {idVariable_getter(Self)} :
          result' = Call("get", None, NoArgs, <<>>, idVariable, r.ok, r.exc,
                          FALSE, r.val)
    /\ UNCHANGED <<pc, source, features, n_features, idVariable, saved, copy,
                   geomIn, geomOut>>

\* fc.getFeatureIds(args)
GetFeatureIds ==
    /\ pc = "ready"
    /\ \E args \in ArgLists :
          \E r \in {getFeatureIds(Self, args)} :
              result' = Call("getFeatureIds", None, Given(args), <<>>, idVariable,
                             r.ok, r.exc, FALSE, r.val)
    /\ UNCHANGED <<pc, source, features, n_features, idVariable, saved, copy,
                   geomIn, geomOut>>

\* list(fc.getFeatures(args)), list(fc.getFeatures())
GetFeatures ==
    /\ pc = "ready"
    /\ \E args \in OptArgs :
          \E r \in {getFeatures(Self, args)} :
              result' = Call("getFeatures", None, args, <<>>, idVariable,
                             r.ok, r.exc, FALSE, r.val)
    /\ UNCHANGED <<pc, source, features, n_features, idVariable, saved, copy,
                   geomIn, geomOut>>

\* list(fc.getGeometries(args)), list(fc.getGeometries())
GetGeometries ==
    /\ pc = "ready"
    /\ \E args \in OptArgs :
          \E r \in {getGeometries(Self, args)} :
              result' = Call("getGeometries", None, args, <<>>, idVariable,
                             r.ok, r.exc, FALSE, r.val)
    /\ UNCHANGED <<pc, source, features, n_features, idVariable, saved, copy,
                   geomIn, geomOut>>

\* fc.getPropertiesAsLists(keys)
GetPropertiesAsLists ==
    /\ pc = "ready"
    /\ \E keys \in KeyLists :
          \E r \in {getPropertiesAsLists(Self, keys)} :
              result' = Call("getPropertiesAsLists", None, NoArgs, keys,
                             idVariable, r.ok, r.exc, FALSE, r.val)
    /\ UNCHANGED <<pc, source, features, n_features, idVariable, saved, copy,
                   geomIn, geomOut>>

\* fc.saveAsGeoJson(path)
SaveAsGeoJson ==
    /\ pc = "ready"
    /\ saved' = [exists |-> TRUE, text |-> JsonDump(saveAsGeoJson(Self))]
    /\ result' = Call("saveAsGeoJson", None, NoArgs, <<>>, idVariable, TRUE, "",
                      FALSE, <<>>)
    /\ UNCHANGED <<pc, source, features, n_features, idVariable, copy, geomIn,
                   geomOut>>

\* fc2 = FeatureCollection(path), path being the file saveAsGeoJson wrote
LoadSaved ==
    /\ pc = "ready"
    /\ saved.exists
    /\ \E r \in {FeatureCollection_init(saved.text, None)} :
          copy' = [made |-> TRUE, ok |-> r.ok, exc |-> r.exc, self |-> r.self]
    /\ UNCHANGED <<pc, source, features, n_features, idVariable, saved, result,
                   geomIn, geomOut>>

\* geometryDispatcher[type](coordinates)
BuildGeometry ==
    /\ ~geomOut.made
    /\ \E r \in {geometryDispatcher(geomIn.type, geomIn.coordinates)} :
          geomOut' = [made |-> TRUE, ok |-> r.ok, exc |-> r.exc, val |-> r.val]
    /\ UNCHANGED <<pc, source, features, n_features, idVariable, saved, copy,
                   result, geomIn>>

Next ==
    \/ Construct
    \/ SetIdVariable
    \/ GetIdVariable
    \/ GetFeatureIds
    \/ GetFeatures
    \/ GetGeometries
    \/ GetPropertiesAsLists
    \/ SaveAsGeoJson

Spec == Init /\ [][Next]_vars

\* Construction, saveAsGeoJson and construction from the saved file.
InitIO == InitWith(IOCatalogue)

NextIO ==
    \/ Construct
    \/ SaveAsGeoJson
    \/ LoadSaved

SpecIO == InitIO /\ [][NextIO]_vars

\* The geometry constructors alone, on every payload within the bounds.
InitGeom ==
    /\ pc = "failed"
    /\ source = JsonDump(Document(<<>>))
    /\ features = <<>>
    /\ n_features = 0
    /\ idVariable = Unset
    /\ saved = NoFile
    /\ copy = NoCopy
    /\ result = NoCall
    /\ geomOut = NoGeom
    /\ \/ \E c \in Pts : geomIn = [type |-> "Point", coordinates |-> c]
       \/ \E t \in {"LineString", "MultiPoint"} : \E c \in Rings :
             geomIn = [type |-> t, coordinates |-> c]
       \/ \E t \in {"Polygon", "MultiLineString"} :
             \E c \in SeqsUpTo(Rings, MaxParts) :
                geomIn = [type |-> t, coordinates |-> c]
       \/ \E c \in SeqsUpTo(SeqsUpTo(ShortRings, MaxParts), MaxParts) :
             geomIn = [type |-> "MultiPolygon", coordinates |-> c]

NextGeom == BuildGeometry

SpecGeom == InitGeom /\ [][NextGeom]_vars

\* ------------------------------------------------------------ claims

\* The feature records of the input file, in file order.
Input == JsonLoad(source).features

Distinct(col) ==
    \A i, j \in 1..Len(col) : i # j => col[i] # col[j]

\* The values the input records hold under a key, in file order.
InputColumn(key) == [i \in 1..Len(Input) |-> Input[i].properties[key]]

HasColumn(key) == \A i \in 1..Len(Input) : key \in DOMAIN Input[i].properties

\* Every record of the input makes a geometry: the constructor reaches
\* its assignment of idVariable.
Constructible ==
    \A i \in 1..Len(Input) :
       geometryDispatcher(Input[i].geometry.type, Input[i].geometry.coordinates).ok

\* The values the features hold under a key, in id order.
FeatureColumn(key) ==
    [i \in 1..n_features |-> features[i - 1].properties[key]]

\* The position, from 0, of the first element of col equal to v.
FirstPos(col, v) == SetMin({i \in 1..Len(col) : col[i] = v}) - 1

\* C1: an assignment to idVariable (the constructor's included) that names
\* a property whose values are not pairwise distinct raises no error, warns,
\* and leaves idVariable readable and equal to what it was before (None for
\* the constructor's assignment).
C1_DuplicateAssignmentKeepsPrior ==
    (/\ result.op \in {"init", "set"}
     /\ result.key \in Keys
     /\ Constructible
     /\ HasColumn(result.key)
     /\ ~Distinct(InputColumn(result.key)))
    => /\ result.ok
       /\ result.warned
       /\ pc = "ready"
       /\ idVariable # Unset
       /\ idVariable = result.prior

\* C2: whenever idVariable names a property, the values of that property
\* are pairwise distinct across the features.
C2_IdColumnDistinct ==
    (pc = "ready" /\ idVariable \in Keys) => Distinct(FeatureColumn(idVariable))

\* C3: with idVariable set, getFeatureIds(values) fails exactly when a
\* requested value is absent from the id column, and otherwise returns, for
\* each value in turn, the position of the first feature holding it.
C3_FeatureIdsArePositions ==
    (result.op = "getFeatureIds" /\ result.prior \in Keys)
    => LET col == FeatureColumn(result.prior)
           vals == result.args.vals
       IN  /\ result.ok <=> (\A k \in 1..Len(vals) : vals[k] \in Range(col))
           /\ result.ok =>
                /\ Len(result.val) = Len(vals)
                /\ \A k \in 1..Len(vals) : result.val[k] = FirstPos(col, vals[k])

\* C4: while idVariable is None, getFeatureIds never returns a list of ids,
\* whatever the argument list and the collection.
C4_NoIdVariableNoIds ==
    (result.op = "getFeatureIds" /\ result.prior = None) => ~result.ok

\* C5: getFeatures(values) and getGeometries(values) yield the features
\* (the geometries) stored at the ids getFeatureIds(values), in that order,
\* for every list given, the empty list included; with values omitted they
\* yield all of them in id order.
C5_QueriesFollowFeatureIds ==
    (result.op \in {"getFeatures", "getGeometries"})
    => LET ids == IF result.args.given
                  THEN getFeatureIds(Self, result.args.vals)
                  ELSE Ok([k \in 1..n_features |-> k - 1])
       IN  ids.ok =>
             /\ result.ok
             /\ Len(result.val) = Len(ids.val)
             /\ \A k \in 1..Len(ids.val) :
                   /\ ids.val[k] \in DOMAIN features
                   /\ result.val[k] =
                        IF result.op = "getFeatures"
                        THEN features[ids.val[k]]
                        ELSE features[ids.val[k]].geometry

\* C6: the collection constructed from the file saveAsGeoJson wrote has the
\* same n_features and, at every id, the same geometry type, the same
\* coordinates and the same properties.
C6_RoundTrip ==
    copy.made =>
       /\ copy.ok
       /\ copy.self.n_features = n_features
       /\ DOMAIN copy.self.features = DOMAIN features
       /\ \A i \in DOMAIN features :
             /\ copy.self.features[i].geometry.type = features[i].geometry.type
             /\ copy.self.features[i].geometry.coordinates =
                   features[i].geometry.coordinates
             /\ copy.self.features[i].properties = features[i].properties

C6_Witness ==
    /\ copy.made
    /\ n_features = 2
    /\ features[0].geometry.type = "MultiPolygon"
    /\ features[1].geometry.type = "MultiLineString"
    /\ features[1].properties["id"] = StrV(12)

\* The points of a payload, the rings or line strings it is made of, and
\* the boxes of its members.
RingsOf(ft, c) ==
    CASE ft \in {"LineString", "MultiPoint"} -> {c}
      [] ft \in {"Polygon", "MultiLineString"} -> Range(c)
      [] ft = "MultiPolygon" -> UNION {Range(c[p]) : p \in 1..Len(c)}

AllPts(ft, c) == UNION {Range(r) : r \in RingsOf(ft, c)}

BoxOf(P) ==
    <<SetMin({p[1] : p \in P}), SetMin({p[2] : p \in P}),
      SetMax({p[1] : p \in P}), SetMax({p[2] : p \in P})>>

MemberBoxes(ft, c) ==
    IF ft \in {"LineString", "MultiPoint"}
    THEN {BoxOf({p}) : p \in Range(c)}
    ELSE {BoxOf(Range(r)) : r \in RingsOf(ft, c)}

UnionBox(B) ==
    <<SetMin({b[1] : b \in B}), SetMin({b[2] : b \in B}),
      SetMax({b[3] : b \in B}), SetMax({b[4] : b \in B})>>

Sentinel == <<Infinity, Infinity, 0 - Infinity, 0 - Infinity>>

\* C7: a geometry other than a Point whose payload holds a point and no
\* empty ring or line string is built, its bbox encloses every point of the
\* payload and equals the union (min of mins, max of maxes) of the boxes of
\* its members.
C7_BBoxEnclosesAndIsTight ==
    (/\ geomOut.made
     /\ geomIn.type # "Point"
     /\ AllPts(geomIn.type, geomIn.coordinates) # {}
     /\ \A r \in RingsOf(geomIn.type, geomIn.coordinates) : Len(r) > 0)
    => /\ geomOut.ok
       /\ \A p \in AllPts(geomIn.type, geomIn.coordinates) :
             /\ geomOut.val.bbox[1] <= p[1] /\ p[1] <= geomOut.val.bbox[3]
             /\ geomOut.val.bbox[2] <= p[2] /\ p[2] <= geomOut.val.bbox[4]
       /\ geomOut.val.bbox = UnionBox(MemberBoxes(geomIn.type, geomIn.coordinates))
       /\ geomOut.val.bbox = BoxOf(AllPts(geomIn.type, geomIn.coordinates))

C7_Witness ==
    /\ geomOut.made
    /\ geomOut.ok
    /\ geomIn.type = "MultiPolygon"
    /\ Len(geomIn.coordinates) = 2
    /\ geomIn.coordinates[1] = <<<<<<0, 1>>>>, <<<<2, 0>>>>>>
    /\ geomIn.coordinates[2] = <<<<<<0, 1>>>>>>
    /\ geomOut.val.bbox = <<0, 0, 2, 1>>

\* C8: a LineString, MultiLineString, Polygon or MultiPolygon whose payload
\* is empty (no member at all, or a ring or line string without points) is
\* built without an error, and when the payload holds no point at all its
\* bbox is [+inf, +inf, -inf, -inf].
C8_EmptyPayloadGivesSentinel ==
    (/\ geomOut.made
     /\ geomIn.type \in {"LineString", "MultiLineString", "Polygon", "MultiPolygon"}
     /\ \/ AllPts(geomIn.type, geomIn.coordinates) = {}
        \/ \E r \in RingsOf(geomIn.type, geomIn.coordinates) : Len(r) = 0)
    => /\ geomOut.ok
       /\ AllPts(geomIn.type, geomIn.coordinates) = {}
             => geomOut.val.bbox = Sentinel

\* C9: when a record of the input carries a type tag that is none of the
\* six, wherever it stands, the constructor raises and the caller holds no
\* collection: no feature, not even of the records before it.
C9_UnknownTypeAborts ==
    (/\ pc # "new"
     /\ \E k \in 1..Len(Input) : Input[k].geometry.type \notin GeometryTypes)
    => /\ pc = "failed"
       /\ result.op = "init"
       /\ ~result.ok
       /\ features = <<>>
       /\ n_features = 0

C9_Witness ==
    /\ pc = "failed"
    /\ Len(Input) = 2
    /\ Input[1].geometry.type = "Point"
    /\ Input[2].geometry.type = "Circle"
    /\ result.exc = "KeyError"

\* The features are the input's records, in file order, under the ids
\* 0..n-1.
Matches ==
    \E input \in {Input} :
       /\ n_features = Len(input)
       /\ DOMAIN features = 0..(Len(input) - 1)
       /\ \A i \in DOMAIN features :
             /\ features[i].geometry.type = input[i + 1].geometry.type
             /\ features[i].geometry.coordinates = input[i + 1].geometry.coordinates
             /\ features[i].properties = input[i + 1].properties

\* C10: the constructor leaves the input's records under the ids 0..n-1,
\* and no call after it, returning or raising, changes the features or
\* n_features; a call that raises, and every call but an assignment to
\* idVariable, leaves idVariable as it was.
C10_CollectionIsClosed ==
    /\ [](pc = "ready" => Matches)
    /\ [][pc = "ready" =>
            /\ pc' = "ready"
            /\ features' = features
            /\ n_features' = n_features
            /\ source' = source
            /\ (~result'.ok \/ result'.op # "set") => idVariable' = idVariable]_vars

C10_Witness ==
    /\ pc = "ready"
    /\ n_features = 2
    /\ idVariable = "id"
    /\ result.op = "getFeatureIds"
    /\ result.exc = "ValueError"
    /\ saved.exists

====
